---- MODULE Spec2Model ----
(***************************************************************************)
(* Board abstraction of the Whitecat agent (src/board.go): the Inspector   *)
(* goroutine, the RXQueue channel, the synchronous serial primitives, the  *)
(* command and file-transfer protocols, reset / attach / detach, together  *)
(* with the serial device on the other end of the transport.               *)
(*                                                                         *)
(* A byte is an integer 0..255, a string is a sequence of bytes.           *)
(***************************************************************************)
EXTENDS Integers, Sequences, FiniteSets, TLC

(***************************************************************************)
(* Bounds of the model.  QueueCap and ChunkSize stand for the values the   *)
(* code gives the RXQueue capacity (10*1024, board.go:147) and the         *)
(* chunkSize field (255, board.go:148), scaled down so that a full queue   *)
(* and a file of chunkSize+1 bytes are reachable.                          *)
(***************************************************************************)
QueueCap == 3
ChunkSize == 3
MaxOps == 3
MaxProbes == 4

LF == 10
CR == 13
EOT == 4
TAB == 9

Ord ==
    (" " :> 32) @@ ("!" :> 33) @@ ("\"" :> 34) @@ ("#" :> 35) @@ ("$" :> 36) @@ ("%" :> 37) @@
    ("&" :> 38) @@ ("'" :> 39) @@ ("(" :> 40) @@ (")" :> 41) @@ ("*" :> 42) @@ ("+" :> 43) @@
    ("," :> 44) @@ ("-" :> 45) @@ ("." :> 46) @@ ("/" :> 47) @@ ("0" :> 48) @@ ("1" :> 49) @@
    ("2" :> 50) @@ ("3" :> 51) @@ ("4" :> 52) @@ ("5" :> 53) @@ ("6" :> 54) @@ ("7" :> 55) @@
    ("8" :> 56) @@ ("9" :> 57) @@ (":" :> 58) @@ (";" :> 59) @@ ("<" :> 60) @@ ("=" :> 61) @@
    (">" :> 62) @@ ("?" :> 63) @@ ("@" :> 64) @@ ("A" :> 65) @@ ("B" :> 66) @@ ("C" :> 67) @@
    ("D" :> 68) @@ ("E" :> 69) @@ ("F" :> 70) @@ ("G" :> 71) @@ ("H" :> 72) @@ ("I" :> 73) @@
    ("J" :> 74) @@ ("K" :> 75) @@ ("L" :> 76) @@ ("M" :> 77) @@ ("N" :> 78) @@ ("O" :> 79) @@
    ("P" :> 80) @@ ("Q" :> 81) @@ ("R" :> 82) @@ ("S" :> 83) @@ ("T" :> 84) @@ ("U" :> 85) @@
    ("V" :> 86) @@ ("W" :> 87) @@ ("X" :> 88) @@ ("Y" :> 89) @@ ("Z" :> 90) @@ ("[" :> 91) @@
    ("\\" :> 92) @@ ("]" :> 93) @@ ("^" :> 94) @@ ("_" :> 95) @@ ("a" :> 97) @@ ("b" :> 98) @@
    ("c" :> 99) @@ ("d" :> 100) @@ ("e" :> 101) @@ ("f" :> 102) @@ ("g" :> 103) @@ ("h" :> 104) @@
    ("i" :> 105) @@ ("j" :> 106) @@ ("k" :> 107) @@ ("l" :> 108) @@ ("m" :> 109) @@ ("n" :> 110) @@
    ("o" :> 111) @@ ("p" :> 112) @@ ("q" :> 113) @@ ("r" :> 114) @@ ("s" :> 115) @@ ("t" :> 116) @@
    ("u" :> 117) @@ ("v" :> 118) @@ ("w" :> 119) @@ ("x" :> 120) @@ ("y" :> 121) @@ ("z" :> 122) @@
    ("{" :> 123) @@ ("|" :> 124) @@ ("}" :> 125) @@ ("~" :> 126)

\* []byte(s) of a string literal
Bytes(s) == [i \in 1..Len(s) |-> Ord[SubSeq(s, i, i)]]

\* string(rune(b)) / string(b): the UTF-8 encoding of the code point b
Utf8(b) == IF b < 128 THEN <<b>> ELSE <<192 + (b \div 64), 128 + (b % 64)>>

Letters == (65..90) \cup (97..122)
Digits == 48..57
Spaces == {9, 10, 12, 13, 32}
Colon == 58

HasPrefix(s, p) == Len(s) >= Len(p) /\ SubSeq(s, 1, Len(p)) = p

\* sub occurs in s at some index >= from
Contains(s, sub, from) ==
    \E i \in from..(Len(s) - Len(sub) + 1) : SubSeq(s, i, i + Len(sub) - 1) = sub

\* first index >= from whose element is not in S (Len(s)+1 when none): the end
\* of a greedy class* run starting at from
RunEnd(s, from, S) ==
    IF \A k \in from..Len(s) : s[k] \in S
    THEN Len(s) + 1
    ELSE CHOOSE j \in from..Len(s) : s[j] \notin S /\ \A k \in from..(j - 1) : s[k] \in S

\* `.` does not match a newline, and $ only matches at the end of the text
NoNewline(s) == \A k \in 1..Len(s) : s[k] # LF

(***************************************************************************)
(* The Inspector's patterns (board.go:78-105), matched the way Go's regexp *)
(* matches them on a line without newline.                                 *)
(***************************************************************************)

\* ^rst:.*\(POWERON_RESET\),boot:.*(.*)$
MatchPowerOn(l) ==
    /\ NoNewline(l)
    /\ HasPrefix(l, Bytes("rst:"))
    /\ Contains(l, Bytes("(POWERON_RESET),boot:"), 5)

\* ^rst:.*(SW_CPU_RESET),boot:.*(.*)$   (unescaped parentheses: a group)
MatchSoftware(l) ==
    /\ NoNewline(l)
    /\ HasPrefix(l, Bytes("rst:"))
    /\ Contains(l, Bytes("SW_CPU_RESET,boot:"), 5)

\* ^rst:.*(DEEPSLEEP_RESET),boot.*(.*)$
MatchDeepSleep(l) ==
    /\ NoNewline(l)
    /\ HasPrefix(l, Bytes("rst:"))
    /\ Contains(l, Bytes("DEEPSLEEP_RESET,boot"), 5)

\* ^([a-zA-Z]*):(\d*)\:\s(\d*)\:(.*)$ and its submatches
Structured(l) ==
    LET a == RunEnd(l, 1, Letters)
        b == RunEnd(l, a + 1, Digits)
        c == RunEnd(l, b + 2, Digits)
        n == Len(l)
    IN  IF /\ NoNewline(l)
           /\ a <= n /\ l[a] = Colon
           /\ b <= n /\ l[b] = Colon
           /\ b + 1 <= n /\ l[b + 1] \in Spaces
           /\ c <= n /\ l[c] = Colon
        THEN [ok |-> TRUE, where |-> SubSeq(l, 1, a - 1), line |-> SubSeq(l, a + 1, b - 1),
              exception |-> SubSeq(l, b + 2, c - 1), message |-> SubSeq(l, c + 1, n)]
        ELSE [ok |-> FALSE, where |-> <<>>, line |-> <<>>, exception |-> <<>>, message |-> <<>>]

\* ^([a-zA-Z]*)\:(\d*)\:\s*(.*)$ and its submatches
Loose(l) ==
    LET a == RunEnd(l, 1, Letters)
        b == RunEnd(l, a + 1, Digits)
        c == RunEnd(l, b + 1, Spaces)
        n == Len(l)
    IN  IF /\ NoNewline(l)
           /\ a <= n /\ l[a] = Colon
           /\ b <= n /\ l[b] = Colon
        THEN [ok |-> TRUE, where |-> SubSeq(l, 1, a - 1), line |-> SubSeq(l, a + 1, b - 1),
              message |-> SubSeq(l, c, n)]
        ELSE [ok |-> FALSE, where |-> <<>>, line |-> <<>>, message |-> <<>>]

\* the payload string of a boardRuntimeError notification
ErrorInfo(where, ln, exception, message) ==
    Bytes("\"where\": \"") \o where \o Bytes("\", \"line\": \"") \o ln
        \o Bytes("\", \"exception\": \"") \o exception
        \o Bytes("\", \"message\": \"") \o message \o Bytes("\"")

Event(name, payload) == [name |-> name, info |-> payload]

\* the reset-cause notifications of one line
ResetEvents(l, disable) ==
    IF disable THEN <<>>
    ELSE (IF MatchPowerOn(l) THEN <<Event("boardPowerOnReset", <<>>)>> ELSE <<>>)
      \o (IF MatchSoftware(l) THEN <<Event("boardSoftwareReset", <<>>)>> ELSE <<>>)
      \o (IF MatchDeepSleep(l) THEN <<Event("boardDeepSleepReset", <<>>)>> ELSE <<>>)

\* a plausible slip: the loose form tested whether or not the structured form matched
ErrorEventsNoElse(l) ==
    (IF Structured(l).ok
     THEN <<Event("boardRuntimeError", ErrorInfo(Structured(l).where, Structured(l).line,
                                                  Structured(l).exception, Structured(l).message))>>
     ELSE <<>>)
    \o (IF Loose(l).ok
        THEN <<Event("boardRuntimeError", ErrorInfo(Loose(l).where, Loose(l).line,
                                                     Bytes("0"), Loose(l).message))>>
        ELSE <<>>)

\* the runtime-error notifications of one line
ErrorEvents(l) ==
    IF Structured(l).ok
    THEN <<Event("boardRuntimeError", ErrorInfo(Structured(l).where, Structured(l).line,
                                                 Structured(l).exception, Structured(l).message))>>
    ELSE IF Loose(l).ok
         THEN <<Event("boardRuntimeError", ErrorInfo(Loose(l).where, Loose(l).line,
                                                      Bytes("0"), Loose(l).message))>>
         ELSE <<>>

\* a slip: the runtime-error tests inside the test of the suppression flag as well
ClassifySuppressAll(l, disable) ==
    IF disable THEN <<>> ELSE ResetEvents(l, disable) \o ErrorEvents(l)

\* everything the Inspector notifies for one line, in emission order
Classify(l, disable) == ResetEvents(l, disable) \o ErrorEvents(l)

\* ^/.*>.*$
isPrompt(l) == NoNewline(l) /\ Len(l) >= 1 /\ l[1] = 47 /\ Contains(l, <<62>>, 2)

BootingBanner == Bytes("Lua RTOS-booting-ESP32")
AbortedBanner == Bytes("Lua RTOS-boot-scripts-aborted-ESP32")
RunningBanner == Bytes("Lua RTOS-running-ESP32")

(***************************************************************************)
(* State                                                                   *)
(***************************************************************************)
VARIABLES
    \* the Board struct and the process-wide active board
    port,                       \* "nil" | "open" | "closed"
    RXQueue,                    \* the buffered channel, oldest byte first
    chunkSize,
    disableInspectorBootNotify,
    flagSeen,                   \* the values of that flag the Inspector's unsynchronised read may yield
    info,
    connectedBoard,             \* "nil" | "this" | "other"
    \* the transport and the device behind it
    failed,                     \* the transport has failed: reads and writes return an error
    wire,                       \* bytes the device has sent, not yet read from the port
    devIn,                      \* what the host has written or applied, not yet handled by the device
    devStage, devMode, devFS, devCur, devPath, devPos,
    \* the Inspector goroutine
    ipc,                        \* "off" | "read" | "send" | "dead"
    line,                       \* its line accumulator
    ibuf,                       \* buffer[0], the byte read and not yet sent to RXQueue
    \* the caller's thread: position, return addresses, arguments and locals
    pc, stack,
    buffer,                     \* readLine's buffer
    rline,                      \* the line readLine returned
    command, response,          \* sendCommand / writeFile / readFile
    path, data,                 \* arguments of writeFile / readFile
    outIndex, inLen, rbuf,      \* writeFile's cursor, readFile's inLen and buffer
    resetRet, attachRet, rfRet, gdRet, \* return values
    probes, closes,                     \* 0x04 probes written by the current reset
    \* what has been observed so far
    notified,                   \* every notify(name, info), in order
    cls,                        \* the last line the Inspector classified and what it notified
    rdHist, enqHist, deqHist,   \* bytes read from the port / sent to RXQueue / received from it
    opLog,                      \* the operations the caller has invoked
    sc,                         \* the last sendCommand: its command, the lines it read, whether it returned
    tr                          \* what the last writeFile, readFile and reset did, step by step

boardVars == <<port, RXQueue, chunkSize, disableInspectorBootNotify, flagSeen, info,
               connectedBoard>>
devVars == <<devStage, devMode, devFS, devCur, devPath, devPos>>
inspVars == <<ipc, line, ibuf>>
localVars == <<buffer, rline, command, response, path, data, outIndex, inLen, rbuf>>
retVars == <<resetRet, attachRet, rfRet, gdRet>>
histVars == <<notified, cls, rdHist, enqHist, deqHist, opLog, sc>>
obsVars == <<histVars, tr>>
vars == <<boardVars, failed, wire, devIn, devVars, inspVars, pc, stack, localVars,
          retVars, probes, closes, obsVars>>

(***************************************************************************)
(* Inputs                                                                  *)
(***************************************************************************)
CRLF == <<CR, LF>>
ReadyLine == Bytes("C")
Prompt == Bytes("/ > ")
InfoPath == Bytes("/_info.lua")
InfoCommand == Bytes("dofile(\"/_info.lua\")")
InfoBody == <<Bytes("{\"os\":\"Lua RTOS\",}")>>

\* file paths the caller uses: a plain one and one with a non-ASCII letter (U+00E9)
PlainPath == Bytes("f")
AccentPath == <<195, 169>>
Paths == {PlainPath, AccentPath}
AutorunPath == Bytes("/autorun.lua")
AllPaths == Paths \cup {InfoPath, AutorunPath}

\* byte strings of length n over S
RECURSIVE SeqsOfLen(_, _)
SeqsOfLen(S, n) ==
    IF n = 0 THEN {<<>>}
    ELSE {Append(s, b) : s \in SeqsOfLen(S, n - 1), b \in S}

\* file contents at the chunk boundaries
BoundaryLens == {0, 1, ChunkSize - 1, ChunkSize, ChunkSize + 1}
BoundaryFiles == UNION {SeqsOfLen({0, LF}, n) : n \in BoundaryLens}
\* file contents of the general session
SessionFiles == {<<>>, <<LF, 0>>}
\* what ioutil.ReadFile("./boards/lua/board-info.lua") yields: an error or the script
NoFile == <<-1>>
InfoScripts == {NoFile, Bytes("p")}

\* commands the caller sends and the response bodies the shell prints for them
Commands == {Bytes("x")}
BodyLines == {<<>>, Bytes("a")}
Bodies == {<<>>} \cup {<<l>> : l \in BodyLines} \cup {<<k, l>> : k \in BodyLines, l \in BodyLines}

\* lines a booting device prints before it answers probes
BootLines ==
    { Bytes("rst:0x1 (POWERON_RESET),boot:0x13"),
      Bytes("rst:(POWERON_RESET),boot:SW_CPU_RESET,boot:"),
      Bytes("rst:DEEPSLEEP_RESET,boot"),
      Bytes("a:1: 2:m"),
      Bytes("a:1: m"),
      Bytes("ets Jun  8 2016") }

\* lines with a byte above 0x7F (0xE9), with a carriage return inside, of plain ASCII
RawLines == {<<233>>, <<97, CR, 98>>, Bytes("a")}

\* the file runCode is given, and the boot lines of the sessions that run code
Codes == {Bytes("c")}
RunBootLines == {Bytes("rst:1: 2:(POWERON_RESET),boot:"), Bytes("a:1: m")}

\* the lines os.ls prints: two entries of four fields, one of three, one of five, an empty one
DirLines ==
    { <<100, TAB, 48, TAB, 49, TAB, 97>>, <<102, TAB, 50, TAB, 51, TAB, 98>>,
      <<100, TAB, 48, TAB, 97>>, <<100, TAB, 48, TAB, 49, TAB, 97, TAB, 120>>, <<>> }
DirBodies ==
    {<<>>} \cup {<<k>> : k \in DirLines} \cup {<<k, l>> : k \in DirLines, l \in DirLines}
        \cup {<<k, l, m>> : k \in DirLines, l \in DirLines, m \in DirLines}

LsCommand(p) == Bytes("os.ls(\"") \o p \o Bytes("\")")
DofileCommand(p) == Bytes("dofile(\"") \o p \o Bytes("\")")
ReceiveCommand(p) == Bytes("io.receive(\"") \o p \o Bytes("\")")
SendFileCommand(p) == Bytes("io.send(\"") \o p \o Bytes("\")")

(***************************************************************************)
(* Init: a Board that has just been declared (var candidate Board), the    *)
(* active board reference nil or pointing at an earlier Board, the device  *)
(* running its shell.                                                      *)
(***************************************************************************)
Init ==
    /\ port = "nil" /\ RXQueue = <<>> /\ chunkSize = 0
    /\ disableInspectorBootNotify = FALSE /\ flagSeen = {FALSE} /\ info = <<>>
    /\ connectedBoard \in {"nil", "other"}
    /\ failed = FALSE /\ wire = <<>> /\ devIn = <<>>
    /\ devStage = "running" /\ devMode = "shell"
    /\ devFS = [p \in AllPaths |-> <<>>] /\ devCur = <<>> /\ devPath = InfoPath /\ devPos = 0
    /\ ipc = "off" /\ line = <<>> /\ ibuf = 0
    /\ pc = "idle" /\ stack = <<>>
    /\ buffer = <<>> /\ rline = <<>> /\ command = <<>> /\ response = <<>>
    /\ path = <<>> /\ data = <<>> /\ outIndex = 0 /\ inLen = 0 /\ rbuf = <<>>
    /\ resetRet = FALSE /\ attachRet = "none" /\ rfRet = <<>> /\ gdRet = <<>>
    /\ probes = 0 /\ closes = 0
    /\ notified = <<>> /\ cls = [n |-> 0, line |-> <<>>, events |-> <<>>, disable |-> FALSE, flag |-> FALSE]
    /\ rdHist = <<>> /\ enqHist = <<>> /\ deqHist = <<>>
    /\ opLog = <<>> /\ sc = [cmd |-> <<>>, lines |-> <<>>, done |-> FALSE]
    /\ tr = [wf |-> [data |-> <<>>, cs |-> 0, echo |-> FALSE, log |-> <<>>, done |-> FALSE],
             rf |-> [echo |-> FALSE, log |-> <<>>, done |-> FALSE],
             rs |-> <<>>]

(***************************************************************************)
(* The Inspector (board.go:63-129).  One iteration is two steps: the Read  *)
(* with the classification of a completed line, then the channel send,     *)
(* which blocks while RXQueue is full.                                     *)
(***************************************************************************)
\* port.Read returned one byte (a Read of zero bytes leaves every variable as it is).
\* The flag is read (board.go:77) without synchronisation with the caller's
\* writes (board.go:429, 433): the read yields the flag's value or one it held
\* since the goroutine was started; cls.disable is what it yielded, cls.flag
\* what the field held.
InspectorRead ==
    /\ ipc = "read" /\ port = "open" /\ ~failed /\ wire # <<>>
    /\ LET b == Head(wire) IN
        /\ wire' = Tail(wire)
        /\ ibuf' = b
        /\ rdHist' = Append(rdHist, b)
        /\ IF b = LF
           THEN \E d \in flagSeen :
                /\ notified' = notified \o Classify(line, d)
                /\ cls' = [n |-> cls.n + 1, line |-> line, events |-> Classify(line, d),
                           disable |-> d, flag |-> disableInspectorBootNotify]
                /\ line' = <<>>
           ELSE /\ line' = IF b # CR THEN line \o Utf8(b) ELSE line
                /\ UNCHANGED <<notified, cls>>
    /\ ipc' = "send"
    /\ UNCHANGED <<boardVars, failed, devIn, devVars, pc, stack, localVars, retVars, probes, closes,
                   enqHist, deqHist, opLog, sc, tr>>

\* port.Read returned an error: the loop is left and the goroutine ends
InspectorReadError ==
    /\ ipc = "read" /\ (failed \/ port = "closed")
    /\ ipc' = "dead"
    /\ UNCHANGED <<boardVars, failed, wire, devIn, devVars, line, ibuf, pc, stack,
                   localVars, retVars, probes, closes, obsVars>>

\* a slip: the carriage return kept out of the channel as it is kept out of the line
InspectorSendSkipCR ==
    /\ ipc = "send" /\ Len(RXQueue) < QueueCap
    /\ RXQueue' = IF ibuf # CR THEN Append(RXQueue, ibuf) ELSE RXQueue
    /\ enqHist' = IF ibuf # CR THEN Append(enqHist, ibuf) ELSE enqHist
    /\ ipc' = "read"
    /\ UNCHANGED <<port, chunkSize, disableInspectorBootNotify, flagSeen, info, connectedBoard,
                   failed, wire, devIn, devVars, line, ibuf, pc, stack, localVars,
                   retVars, probes, closes, notified, cls, rdHist, deqHist, opLog, sc, tr>>

\* a slip: the byte dropped instead of waiting when the channel is full
InspectorSendDropFull ==
    /\ ipc = "send"
    /\ RXQueue' = IF Len(RXQueue) < QueueCap THEN Append(RXQueue, ibuf) ELSE RXQueue
    /\ enqHist' = IF Len(RXQueue) < QueueCap THEN Append(enqHist, ibuf) ELSE enqHist
    /\ ipc' = "read"
    /\ UNCHANGED <<port, chunkSize, disableInspectorBootNotify, flagSeen, info, connectedBoard,
                   failed, wire, devIn, devVars, line, ibuf, pc, stack, localVars,
                   retVars, probes, closes, notified, cls, rdHist, deqHist, opLog, sc, tr>>

\* board.RXQueue <- buffer[0]
InspectorSend ==
    /\ ipc = "send" /\ Len(RXQueue) < QueueCap
    /\ RXQueue' = Append(RXQueue, ibuf)
    /\ enqHist' = Append(enqHist, ibuf)
    /\ ipc' = "read"
    /\ UNCHANGED <<port, chunkSize, disableInspectorBootNotify, flagSeen, info, connectedBoard,
                   failed, wire, devIn, devVars, line, ibuf, pc, stack, localVars,
                   retVars, probes, closes, notified, cls, rdHist, deqHist, opLog, sc, tr>>

\* the transport fails (the cable is pulled): every later Read and Write returns an error
TransportFail ==
    /\ port = "open" /\ ~failed
    /\ failed' = TRUE
    /\ UNCHANGED <<boardVars, wire, devIn, devVars, inspVars, pc, stack, localVars,
                   retVars, probes, closes, obsVars>>

(***************************************************************************)
(* The caller's thread.  A call pushes the label to return to; the         *)
(* procedures are not recursive, so their locals are plain variables.      *)
(***************************************************************************)
WriteMsg(b) == [k |-> "write", flow |-> FALSE, b |-> b]
ApplyMsg(f) == [k |-> "apply", flow |-> f, b |-> <<>>]

\* port.Write / port.Apply: what reaches the device (an error is ignored by the code)
Written(msgs) == IF port = "open" /\ ~failed THEN devIn \o msgs ELSE devIn

\* an invocation: the operation, its path and data, and the receiver of a detach
Op(name, p, d) == [op |-> name, path |-> p, data |-> d, recv |-> "this"]
DetachOp(recv) == [op |-> "detach", path |-> <<>>, data |-> <<>>, recv |-> recv]

\* strings.Replace(s, old, new, -1)
RECURSIVE ReplaceAll(_, _, _)
ReplaceAll(s, old, new) ==
    IF Len(s) < Len(old) THEN s
    ELSE IF HasPrefix(s, old)
         THEN new \o ReplaceAll(SubSeq(s, Len(old) + 1, Len(s)), old, new)
         ELSE <<Head(s)>> \o ReplaceAll(Tail(s), old, new)

\* a slip: the board installed as soon as the port is open, before reset has run
AttachInstallEarly(ok) ==
    /\ pc = "idle" /\ Len(opLog) < MaxOps /\ port = "nil"
    /\ opLog' = Append(opLog, Op("attach", <<>>, <<>>))
    /\ IF ok
       THEN /\ port' = "open" /\ RXQueue' = <<>> /\ chunkSize' = ChunkSize
            /\ disableInspectorBootNotify' = FALSE /\ flagSeen' = {FALSE}
            /\ ipc' = "read" /\ line' = <<>>
            /\ connectedBoard' = "this"
            /\ pc' = "reset" /\ stack' = <<"attach_ret">>
            /\ attachRet' = "none"
       ELSE /\ attachRet' = "false"
            /\ UNCHANGED <<port, RXQueue, chunkSize, disableInspectorBootNotify, flagSeen, ipc, line,
                           pc, stack, connectedBoard>>
    /\ UNCHANGED <<info, failed, wire, devIn, devVars, ibuf, localVars,
                   resetRet, rfRet, gdRet, probes, closes, notified, cls, rdHist, enqHist,
                   deqHist, sc, tr>>

\* attach (board.go:131-151): open the port, fill the struct, start the Inspector, call reset
Attach(ok) ==
    /\ pc = "idle" /\ Len(opLog) < MaxOps /\ port = "nil"
    /\ opLog' = Append(opLog, Op("attach", <<>>, <<>>))
    /\ IF ok
       THEN /\ port' = "open" /\ RXQueue' = <<>> /\ chunkSize' = ChunkSize
            /\ disableInspectorBootNotify' = FALSE /\ flagSeen' = {FALSE}
            /\ ipc' = "read" /\ line' = <<>>
            /\ pc' = "reset" /\ stack' = <<"attach_ret">>
            /\ attachRet' = "none"
       ELSE /\ attachRet' = "false"
            /\ UNCHANGED <<port, RXQueue, chunkSize, disableInspectorBootNotify, flagSeen, ipc, line,
                           pc, stack>>
    /\ UNCHANGED <<info, connectedBoard, failed, wire, devIn, devVars, ibuf, localVars,
                   resetRet, rfRet, gdRet, probes, closes, notified, cls, rdHist, enqHist,
                   deqHist, sc, tr>>

\* attach (board.go:153-162): after reset returned
AttachRet ==
    /\ pc = "attach_ret"
    /\ IF resetRet
       THEN /\ connectedBoard' = "this"
            /\ notified' = Append(notified, Event("boardAttached", <<>>))
            /\ attachRet' = "true"
       ELSE /\ attachRet' = "false"
            /\ UNCHANGED <<connectedBoard, notified>>
    /\ pc' = "idle"
    /\ UNCHANGED <<port, RXQueue, chunkSize, disableInspectorBootNotify, flagSeen, info, failed, wire,
                   devIn, devVars, inspVars, stack, localVars, resetRet, rfRet, gdRet, probes,
                   closes, cls, rdHist, enqHist, deqHist, opLog, sc, tr>>

\* a slip: the reference cleared only for a Board that is present
DetachGuarded(recv) ==
    /\ pc = "idle" /\ Len(opLog) < MaxOps
    /\ recv = "this" => port # "nil"
    /\ opLog' = Append(opLog, DetachOp(recv))
    /\ IF recv # "nil"
       THEN port' = "closed" /\ closes' = closes + 1 /\ connectedBoard' = "nil"
       ELSE UNCHANGED <<port, closes, connectedBoard>>
    /\ UNCHANGED <<RXQueue, chunkSize, disableInspectorBootNotify, flagSeen, info, failed, wire, devIn,
                   devVars, inspVars, pc, stack, localVars, retVars, probes, notified, cls,
                   rdHist, enqHist, deqHist, sc, tr>>

\* detach (board.go:165-172) on the receiver recv: nil or this Board, once its port is set
Detach(recv) ==
    /\ pc = "idle" /\ Len(opLog) < MaxOps
    /\ recv = "this" => port # "nil"
    /\ opLog' = Append(opLog, DetachOp(recv))
    /\ IF recv # "nil"
       THEN port' = "closed" /\ closes' = closes + 1
       ELSE UNCHANGED <<port, closes>>
    /\ connectedBoard' = "nil"
    /\ UNCHANGED <<RXQueue, chunkSize, disableInspectorBootNotify, flagSeen, info, failed, wire, devIn,
                   devVars, inspVars, pc, stack, localVars, retVars, probes, notified, cls,
                   rdHist, enqHist, deqHist, sc, tr>>

\* read (board.go:179-181) inside readLine (board.go:184-200): one byte per step
ReadLine ==
    /\ pc = "readLine" /\ RXQueue # <<>>
    /\ LET b == Head(RXQueue) IN
        /\ RXQueue' = Tail(RXQueue)
        /\ deqHist' = Append(deqHist, b)
        /\ IF b = LF
           THEN /\ rline' = buffer /\ buffer' = <<>>
                /\ pc' = Head(stack) /\ stack' = Tail(stack)
           ELSE /\ buffer' = IF b # CR THEN buffer \o Utf8(b) ELSE buffer
                /\ UNCHANGED <<rline, pc, stack>>
    /\ UNCHANGED <<port, chunkSize, disableInspectorBootNotify, flagSeen, info, connectedBoard, failed,
                   wire, devIn, devVars, inspVars, command, response, path, data, outIndex,
                   inLen, rbuf, retVars, probes, closes, notified, cls, rdHist, enqHist,
                   opLog, sc, tr>>

\* consume (board.go:202-208), after its sleep: read while the channel holds a byte
Consume ==
    /\ pc = "consume"
    /\ IF Len(RXQueue) > 0
       THEN /\ RXQueue' = Tail(RXQueue)
            /\ deqHist' = Append(deqHist, Head(RXQueue))
            /\ UNCHANGED <<pc, stack>>
       ELSE /\ pc' = Head(stack) /\ stack' = Tail(stack)
            /\ UNCHANGED <<RXQueue, deqHist>>
    /\ UNCHANGED <<port, chunkSize, disableInspectorBootNotify, flagSeen, info, connectedBoard, failed,
                   wire, devIn, devVars, inspVars, localVars, retVars, probes, closes,
                   notified, cls, rdHist, enqHist, opLog, sc, tr>>

\* the number of lines in a sequence of bytes
LineCount(h) == Len(SelectSeq(h, LAMBDA b : b = LF))

\* reset (board.go:272-285): flow control on, then back to idle
Reset ==
    /\ pc = "reset"
    /\ devIn' = Written(<<ApplyMsg(TRUE), ApplyMsg(FALSE)>>)
    /\ probes' = 0
    /\ pc' = "isBooting"
    /\ tr' = [tr EXCEPT !.rs = <<[k |-> "on", l |-> <<>>, nl |-> LineCount(deqHist)], [k |-> "off", l |-> <<>>, nl |-> LineCount(deqHist)]>>]
    /\ UNCHANGED <<boardVars, failed, wire, devVars, inspVars, stack, localVars, retVars,
                   closes, histVars>>

\* isBooting (board.go:211-215) and isRunning (board.go:220-224): the probe, then readLine
Probe(label) ==
    /\ pc = label /\ probes < MaxProbes
    /\ devIn' = Written(<<WriteMsg(<<EOT>>)>>)
    /\ probes' = probes + 1
    /\ pc' = "readLine" /\ stack' = <<label \o "_ret">> \o stack
    /\ tr' = [tr EXCEPT !.rs = Append(@, [k |-> "probe", l |-> <<EOT>>, nl |-> LineCount(deqHist)])]
    /\ UNCHANGED <<boardVars, failed, wire, devVars, inspVars, localVars, retVars, closes,
                   histVars>>

\* a slip: any line taken for a sign of booting
IsBootingBannerAny(l) == TRUE

\* a slip: the running banner not accepted as a sign of booting
IsBootingBannerStrict(l) == l = BootingBanner \/ l = AbortedBanner

\* the return value of isBooting (board.go:216)
IsBootingBanner(l) == l = BootingBanner \/ l = AbortedBanner \/ l = RunningBanner

\* a slip: the booting banner taken for the running one
IsRunningBannerWrong(l) == l = BootingBanner

\* the return value of isRunning (board.go:225)
IsRunningBanner(l) == l = RunningBanner

\* reset's first loop (board.go:288-293)
IsBootingRet ==
    /\ pc = "isBooting_ret"
    /\ pc' = IF IsBootingBanner(rline) THEN "isRunning" ELSE "isBooting"
    /\ tr' = [tr EXCEPT !.rs = Append(@, [k |-> "reply1", l |-> rline, nl |-> LineCount(deqHist)])]
    /\ UNCHANGED <<boardVars, failed, wire, devIn, devVars, inspVars, stack, localVars,
                   retVars, probes, closes, histVars>>

\* reset's second loop (board.go:298-303), then the call of consume (board.go:308)
IsRunningRet ==
    /\ pc = "isRunning_ret"
    /\ IF IsRunningBanner(rline)
       THEN /\ pc' = "consume" /\ stack' = <<"reset_info">> \o stack
            /\ tr' = [tr EXCEPT !.rs = @ \o <<[k |-> "reply2", l |-> rline, nl |-> LineCount(deqHist)], [k |-> "flush", l |-> <<>>, nl |-> LineCount(deqHist)]>>]
       ELSE /\ pc' = "isRunning" /\ UNCHANGED stack
            /\ tr' = [tr EXCEPT !.rs = Append(@, [k |-> "reply2", l |-> rline, nl |-> LineCount(deqHist)])]
    /\ UNCHANGED <<boardVars, failed, wire, devIn, devVars, inspVars, localVars, retVars,
                   probes, closes, histVars>>

\* reset (board.go:311-314): the info script is read and, if that worked, pushed
ResetInfo(script) ==
    /\ pc = "reset_info"
    /\ IF script = NoFile
       THEN pc' = "getInfo" /\ UNCHANGED <<stack, path, data, tr>>
       ELSE /\ path' = InfoPath /\ data' = script
            /\ pc' = "writeFile" /\ stack' = <<"getInfo">> \o stack
            /\ tr' = [tr EXCEPT !.rs = Append(@, [k |-> "push", l |-> <<>>, nl |-> LineCount(deqHist)])]
    /\ UNCHANGED <<boardVars, failed, wire, devIn, devVars, inspVars, buffer, rline, command,
                   response, outIndex, inLen, rbuf, retVars, probes, closes, histVars>>

\* getInfo (board.go:233-234): the call of sendCommand
GetInfo ==
    /\ pc = "getInfo"
    /\ command' = InfoCommand
    /\ pc' = "sendCommand" /\ stack' = <<"getInfo_ret">> \o stack
    /\ tr' = [tr EXCEPT !.rs = Append(@, [k |-> "info", l |-> <<>>, nl |-> LineCount(deqHist)])]
    /\ UNCHANGED <<boardVars, failed, wire, devIn, devVars, inspVars, buffer, rline, response,
                   path, data, outIndex, inLen, rbuf, retVars, probes, closes, histVars>>

\* a slip: reset reporting a failure when the transport has failed
GetInfoRetCheckTransport ==
    /\ pc = "getInfo_ret"
    /\ info' = ReplaceAll(ReplaceAll(response, Bytes(",}"), Bytes("}")), Bytes(",]"), Bytes("]"))
    /\ resetRet' = ~failed
    /\ pc' = Head(stack) /\ stack' = Tail(stack)
    /\ tr' = [tr EXCEPT !.rs = Append(@, [k |-> "ret", l |-> <<>>, nl |-> LineCount(deqHist)])]
    /\ UNCHANGED <<port, RXQueue, chunkSize, disableInspectorBootNotify, flagSeen, connectedBoard,
                   failed, wire, devIn, devVars, inspVars, localVars, attachRet, rfRet, gdRet,
                   probes, closes, histVars>>

\* getInfo (board.go:236-239) and the end of reset (board.go:321-322)
GetInfoRet ==
    /\ pc = "getInfo_ret"
    /\ info' = ReplaceAll(ReplaceAll(response, Bytes(",}"), Bytes("}")), Bytes(",]"), Bytes("]"))
    /\ resetRet' = TRUE
    /\ pc' = Head(stack) /\ stack' = Tail(stack)
    /\ tr' = [tr EXCEPT !.rs = Append(@, [k |-> "ret", l |-> <<>>, nl |-> LineCount(deqHist)])]
    /\ UNCHANGED <<port, RXQueue, chunkSize, disableInspectorBootNotify, flagSeen, connectedBoard,
                   failed, wire, devIn, devVars, inspVars, localVars, attachRet, rfRet, gdRet,
                   probes, closes, histVars>>

\* sendCommand (board.go:244-250): the command and "\r\n" written, the echo awaited
SendCommand ==
    /\ pc = "sendCommand"
    /\ response' = <<>>
    /\ devIn' = Written(<<WriteMsg(command \o CRLF)>>)
    /\ sc' = [cmd |-> command, lines |-> <<>>, done |-> FALSE]
    /\ pc' = "readLine" /\ stack' = <<"sc_echo">> \o stack
    /\ UNCHANGED <<boardVars, failed, wire, devVars, inspVars, buffer, rline, command, path,
                   data, outIndex, inLen, rbuf, retVars, probes, closes, notified, cls,
                   rdHist, enqHist, deqHist, opLog, tr>>

\* a slip: the body read whatever the echo was
EchoAlwaysMatches(l, c) == TRUE

\* the echo test of sendCommand, writeFile and readFile (board.go:251, 357, 399)
EchoMatches(l, c) == l = c

\* sendCommand (board.go:251, 265-267): the echo compared with the command
SendCommandEcho ==
    /\ pc = "sc_echo"
    /\ IF EchoMatches(rline, command)
       THEN /\ pc' = "readLine" /\ stack' = <<"sc_body">> \o stack
            /\ sc' = [sc EXCEPT !.lines = Append(@, rline)]
            /\ UNCHANGED response
       ELSE /\ response' = <<>>
            /\ sc' = [sc EXCEPT !.lines = Append(@, rline), !.done = TRUE]
            /\ pc' = Head(stack) /\ stack' = Tail(stack)
    /\ UNCHANGED <<boardVars, failed, wire, devIn, devVars, inspVars, buffer, rline, command,
                   path, data, outIndex, inLen, rbuf, retVars, probes, closes, notified, cls,
                   rdHist, enqHist, deqHist, opLog, tr>>

\* the response after one more line (board.go:259-262)
Accumulate(resp, l) == (IF resp # <<>> THEN resp \o CRLF ELSE resp) \o l

\* sendCommand (board.go:253-264): lines accumulated until the prompt
SendCommandBody ==
    /\ pc = "sc_body"
    /\ IF isPrompt(rline)
       THEN /\ sc' = [sc EXCEPT !.lines = Append(@, rline), !.done = TRUE]
            /\ pc' = Head(stack) /\ stack' = Tail(stack)
            /\ UNCHANGED response
       ELSE /\ response' = Accumulate(response, rline)
            /\ sc' = [sc EXCEPT !.lines = Append(@, rline)]
            /\ pc' = "readLine" /\ stack' = <<"sc_body">> \o stack
    /\ UNCHANGED <<boardVars, failed, wire, devIn, devVars, inspVars, buffer, rline, command,
                   path, data, outIndex, inLen, rbuf, retVars, probes, closes, notified, cls,
                   rdHist, enqHist, deqHist, opLog, tr>>

\* writeFile (board.go:350-357): the receive command and "\r" written, the echo awaited
WriteFile ==
    /\ pc = "writeFile"
    /\ command' = ReceiveCommand(path)
    /\ outIndex' = 0
    /\ devIn' = Written(<<WriteMsg(ReceiveCommand(path) \o <<CR>>)>>)
    /\ pc' = "readLine" /\ stack' = <<"wf_echo">> \o stack
    /\ tr' = [tr EXCEPT !.wf = [data |-> data, cs |-> chunkSize, echo |-> FALSE,
                                log |-> <<>>, done |-> FALSE]]
    /\ UNCHANGED <<boardVars, failed, wire, devVars, inspVars, buffer, rline, response, path,
                   data, inLen, rbuf, retVars, probes, closes, histVars>>

\* a slip: the queue flushed by consume also when the echo did not match
WriteFileEchoFlush ==
    /\ pc = "wf_echo"
    /\ IF EchoMatches(rline, command)
       THEN /\ pc' = "readLine" /\ stack' = <<"wf_chunk">> \o stack
            /\ tr' = [tr EXCEPT !.wf.echo = TRUE]
       ELSE /\ pc' = "consume" /\ UNCHANGED stack
            /\ tr' = [tr EXCEPT !.wf.done = TRUE]
    /\ UNCHANGED <<boardVars, failed, wire, devIn, devVars, inspVars, localVars, retVars,
                   probes, closes, histVars>>

\* writeFile (board.go:357): the echo compared with the command
WriteFileEcho ==
    /\ pc = "wf_echo"
    /\ IF EchoMatches(rline, command)
       THEN /\ pc' = "readLine" /\ stack' = <<"wf_chunk">> \o stack
            /\ tr' = [tr EXCEPT !.wf.echo = TRUE]
       ELSE /\ pc' = Head(stack) /\ stack' = Tail(stack)
            /\ tr' = [tr EXCEPT !.wf.done = TRUE]
    /\ UNCHANGED <<boardVars, failed, wire, devIn, devVars, inspVars, localVars, retVars,
                   probes, closes, histVars>>

\* a slip: a last chunk shorter than chunkSize taken for the end of the buffer
ChunkLenNoTail(idx, n, cs) == IF idx + cs - 1 < n THEN cs ELSE 0

\* outLen (board.go:362-370)
ChunkLen(idx, n, cs) ==
    IF idx < n
    THEN IF idx + cs - 1 < n THEN cs ELSE n - idx
    ELSE 0

\* writeFile (board.go:360-386): one line from the device; on "C" the next chunk
WriteFileChunk ==
    /\ pc = "wf_chunk"
    /\ IF rline = ReadyLine
       THEN LET outLen == ChunkLen(outIndex, Len(data), chunkSize)
                chunk == SubSeq(data, outIndex + 1, outIndex + outLen)
            IN
            IF outLen > 0
            THEN /\ devIn' = Written(<<WriteMsg(<<outLen % 256>>), WriteMsg(chunk)>>)
                 /\ tr' = [tr EXCEPT !.wf.log =
                               Append(@, [line |-> rline, sent |-> <<<<outLen % 256>>, chunk>>])]
                 /\ outIndex' = outIndex + outLen
                 /\ pc' = "readLine" /\ stack' = <<"wf_chunk">> \o stack
            ELSE /\ devIn' = Written(<<WriteMsg(<<outLen % 256>>)>>)
                 /\ tr' = [tr EXCEPT !.wf.log =
                               Append(@, [line |-> rline, sent |-> <<<<outLen % 256>>>>]),
                                     !.wf.done = TRUE]
                 /\ pc' = "consume"
                 /\ UNCHANGED <<outIndex, stack>>
       ELSE /\ pc' = "readLine" /\ stack' = <<"wf_chunk">> \o stack
            /\ tr' = [tr EXCEPT !.wf.log = Append(@, [line |-> rline, sent |-> <<>>])]
            /\ UNCHANGED <<devIn, outIndex>>
    /\ UNCHANGED <<boardVars, failed, wire, devVars, inspVars, buffer, rline, command,
                   response, path, data, inLen, rbuf, retVars, probes, closes, histVars>>

\* readFile (board.go:391-399): the send command and "\r" written, the echo awaited
ReadFile ==
    /\ pc = "readFile"
    /\ command' = SendFileCommand(path)
    /\ rbuf' = <<>> /\ inLen' = 0
    /\ devIn' = Written(<<WriteMsg(SendFileCommand(path) \o <<CR>>)>>)
    /\ pc' = "readLine" /\ stack' = <<"rf_echo">> \o stack
    /\ tr' = [tr EXCEPT !.rf = [echo |-> FALSE, log |-> <<>>, done |-> FALSE]]
    /\ UNCHANGED <<boardVars, failed, wire, devVars, inspVars, buffer, rline, response, path,
                   data, outIndex, retVars, probes, closes, histVars>>

\* readFile (board.go:399, 425): the echo compared with the command; nil on a mismatch
ReadFileEcho ==
    /\ pc = "rf_echo"
    /\ IF EchoMatches(rline, command)
       THEN /\ pc' = "rf_ready" /\ UNCHANGED <<stack, rfRet>>
            /\ tr' = [tr EXCEPT !.rf.echo = TRUE]
       ELSE /\ rfRet' = <<>>
            /\ pc' = Head(stack) /\ stack' = Tail(stack)
            /\ tr' = [tr EXCEPT !.rf.done = TRUE]
    /\ UNCHANGED <<boardVars, failed, wire, devIn, devVars, inspVars, localVars, resetRet,
                   attachRet, gdRet, probes, closes, histVars>>

\* readFile (board.go:402): the ready marker
ReadFileReady ==
    /\ pc = "rf_ready"
    /\ devIn' = Written(<<WriteMsg(ReadyLine \o <<LF>>)>>)
    /\ pc' = "rf_len"
    /\ tr' = [tr EXCEPT !.rf.log = Append(@, [k |-> "ready", v |-> 0])]
    /\ UNCHANGED <<boardVars, failed, wire, devVars, inspVars, stack, localVars, retVars,
                   probes, closes, histVars>>

\* readFile (board.go:405-417, 420): the length byte; zero ends the loop and calls consume
ReadFileLen ==
    /\ pc = "rf_len" /\ RXQueue # <<>>
    /\ RXQueue' = Tail(RXQueue)
    /\ deqHist' = Append(deqHist, Head(RXQueue))
    /\ inLen' = Head(RXQueue)
    /\ IF Head(RXQueue) > 0
       THEN pc' = "rf_data" /\ UNCHANGED stack
       ELSE pc' = "consume" /\ stack' = <<"rf_ret">> \o stack
    /\ tr' = [tr EXCEPT !.rf.log = Append(@, [k |-> "len", v |-> Head(RXQueue)])]
    /\ UNCHANGED <<port, chunkSize, disableInspectorBootNotify, flagSeen, info, connectedBoard, failed,
                   wire, devIn, devVars, inspVars, buffer, rline, command, response, path,
                   data, outIndex, rbuf, retVars, probes, closes, notified, cls, rdHist,
                   enqHist, opLog, sc>>

\* a slip: the last byte of every chunk read from the channel but not kept
ReadFileDataDropLast ==
    /\ pc = "rf_data" /\ RXQueue # <<>>
    /\ RXQueue' = Tail(RXQueue)
    /\ deqHist' = Append(deqHist, Head(RXQueue))
    /\ rbuf' = IF inLen > 1 THEN Append(rbuf, Head(RXQueue)) ELSE rbuf
    /\ inLen' = inLen - 1
    /\ pc' = IF inLen - 1 > 0 THEN "rf_data" ELSE "rf_ready"
    /\ tr' = [tr EXCEPT !.rf.log = Append(@, [k |-> "byte", v |-> Head(RXQueue)])]
    /\ UNCHANGED <<port, chunkSize, disableInspectorBootNotify, flagSeen, info, connectedBoard, failed,
                   wire, devIn, devVars, inspVars, stack, buffer, rline, command, response,
                   path, data, outIndex, retVars, probes, closes, notified, cls, rdHist,
                   enqHist, opLog, sc>>

\* readFile (board.go:409-413): one payload byte
ReadFileData ==
    /\ pc = "rf_data" /\ RXQueue # <<>>
    /\ RXQueue' = Tail(RXQueue)
    /\ deqHist' = Append(deqHist, Head(RXQueue))
    /\ rbuf' = Append(rbuf, Head(RXQueue))
    /\ inLen' = inLen - 1
    /\ pc' = IF inLen - 1 > 0 THEN "rf_data" ELSE "rf_ready"
    /\ tr' = [tr EXCEPT !.rf.log = Append(@, [k |-> "byte", v |-> Head(RXQueue)])]
    /\ UNCHANGED <<port, chunkSize, disableInspectorBootNotify, flagSeen, info, connectedBoard, failed,
                   wire, devIn, devVars, inspVars, stack, buffer, rline, command, response,
                   path, data, outIndex, retVars, probes, closes, notified, cls, rdHist,
                   enqHist, opLog, sc>>

\* readFile (board.go:422): buffer.Bytes() returned
ReadFileRet ==
    /\ pc = "rf_ret"
    /\ rfRet' = rbuf
    /\ pc' = Head(stack) /\ stack' = Tail(stack)
    /\ tr' = [tr EXCEPT !.rf.done = TRUE]
    /\ UNCHANGED <<boardVars, failed, wire, devIn, devVars, inspVars, localVars, resetRet,
                   attachRet, gdRet, probes, closes, histVars>>

\* strings.Split(s, sep) for a separator of one byte
RECURSIVE Split(_, _)
Split(s, sep) ==
    IF \A i \in 1..Len(s) : s[i] # sep THEN <<s>>
    ELSE LET j == CHOOSE i \in 1..Len(s) : s[i] = sep /\ \A k \in 1..(i - 1) : s[k] # sep
         IN  <<SubSeq(s, 1, j - 1)>> \o Split(SubSeq(s, j + 1, Len(s)), sep)

\* strings.Replace(s, "\r", "", -1)
DropCR(s) == SelectSeq(s, LAMBDA b : b # CR)

\* the object appended for an entry (board.go:337-342)
DirObject(el) ==
    Bytes("{\"type\": \"") \o el[1] \o Bytes("\",\"size\": \"") \o el[2]
        \o Bytes("\",\"date\": \"") \o el[3] \o Bytes("\",\"name\": \"") \o el[4]
        \o Bytes("\"}")

\* a slip: a line with more than four fields taken for an entry
AtLeastFourFields(el) == Len(el) >= 4

\* len(element) == 4 (board.go:332)
FourFields(el) == Len(el) = 4

\* the loop over the lines of the response (board.go:329-344)
RECURSIVE DirEntries(_, _)
DirEntries(ls, content) ==
    IF ls = <<>> THEN content
    ELSE LET el == Split(DropCR(Head(ls)), TAB) IN
         DirEntries(Tail(ls),
                    IF FourFields(el)
                    THEN (IF content # <<>> THEN content \o Bytes(",") ELSE content) \o DirObject(el)
                    ELSE content)

\* getDirContent (board.go:326-346) on the response of sendCommand
DirContent(resp) == Bytes("[") \o DirEntries(Split(resp, LF), <<>>) \o Bytes("]")

\* getDirContent (board.go:328): the call of sendCommand
GetDirContent ==
    /\ pc = "getDirContent"
    /\ command' = LsCommand(path)
    /\ pc' = "sendCommand" /\ stack' = <<"gd_ret">> \o stack
    /\ UNCHANGED <<boardVars, failed, wire, devIn, devVars, inspVars, buffer, rline, response,
                   path, data, outIndex, inLen, rbuf, retVars, probes, closes, obsVars>>

\* getDirContent (board.go:329-346): the result built from the response
GetDirContentRet ==
    /\ pc = "gd_ret"
    /\ gdRet' = DirContent(response)
    /\ pc' = Head(stack) /\ stack' = Tail(stack)
    /\ UNCHANGED <<boardVars, failed, wire, devIn, devVars, inspVars, localVars, resetRet,
                   attachRet, rfRet, probes, closes, obsVars>>

\* runCode (board.go:429-432): suppression switched on, reset called
RunCode ==
    /\ pc = "runCode"
    /\ disableInspectorBootNotify' = TRUE /\ flagSeen' = flagSeen \cup {TRUE}
    /\ pc' = "reset" /\ stack' = <<"rc_ret">> \o stack
    /\ UNCHANGED <<port, RXQueue, chunkSize, info, connectedBoard, failed, wire, devIn,
                   devVars, inspVars, localVars, retVars, probes, closes, obsVars>>

\* runCode (board.go:432-436): after reset returned true suppression is switched
\* off and autorun.lua is written; path and code are the arguments of the call
RunCodeRet ==
    /\ pc = "rc_ret"
    /\ IF resetRet
       THEN /\ disableInspectorBootNotify' = FALSE /\ flagSeen' = flagSeen \cup {FALSE}
            /\ path' = AutorunPath
            /\ data' = DofileCommand(opLog[Len(opLog)].path) \o CRLF
            /\ pc' = "writeFile" /\ stack' = <<"rc_code">> \o stack
       ELSE /\ pc' = Head(stack) /\ stack' = Tail(stack)
            /\ UNCHANGED <<disableInspectorBootNotify, flagSeen, path, data>>
    /\ UNCHANGED <<port, RXQueue, chunkSize, info, connectedBoard, failed, wire, devIn,
                   devVars, inspVars, buffer, rline, command, response, outIndex, inLen,
                   rbuf, retVars, probes, closes, obsVars>>

\* runCode (board.go:439): the code written to the target file
RunCodeCode ==
    /\ pc = "rc_code"
    /\ path' = opLog[Len(opLog)].path /\ data' = opLog[Len(opLog)].data
    /\ pc' = "writeFile" /\ stack' = <<"rc_run">> \o stack
    /\ UNCHANGED <<boardVars, failed, wire, devIn, devVars, inspVars, buffer, rline, command,
                   response, outIndex, inLen, rbuf, retVars, probes, closes, obsVars>>

\* runCode (board.go:442-444): the target file run, then consume
RunCodeRun ==
    /\ pc = "rc_run"
    /\ devIn' = Written(<<WriteMsg(DofileCommand(opLog[Len(opLog)].path) \o <<CR>>)>>)
    /\ pc' = "consume"
    /\ UNCHANGED <<boardVars, failed, wire, devVars, inspVars, stack, localVars, retVars,
                   probes, closes, obsVars>>

\* the caller invokes an operation of the active board
CallSendCommand(c) ==
    /\ pc = "idle" /\ Len(opLog) < MaxOps /\ connectedBoard = "this"
    /\ opLog' = Append(opLog, Op("sendCommand", c, <<>>))
    /\ command' = c
    /\ pc' = "sendCommand" /\ stack' = <<"idle">>
    /\ UNCHANGED <<boardVars, failed, wire, devIn, devVars, inspVars, buffer, rline, response,
                   path, data, outIndex, inLen, rbuf, retVars, probes, closes, notified, cls,
                   rdHist, enqHist, deqHist, sc, tr>>

CallWriteFile(p, d) ==
    /\ pc = "idle" /\ Len(opLog) < MaxOps /\ connectedBoard = "this"
    /\ opLog' = Append(opLog, Op("writeFile", p, d))
    /\ path' = p /\ data' = d
    /\ pc' = "writeFile" /\ stack' = <<"idle">>
    /\ UNCHANGED <<boardVars, failed, wire, devIn, devVars, inspVars, buffer, rline, command,
                   response, outIndex, inLen, rbuf, retVars, probes, closes, notified, cls,
                   rdHist, enqHist, deqHist, sc, tr>>

CallReadFile(p) ==
    /\ pc = "idle" /\ Len(opLog) < MaxOps /\ connectedBoard = "this"
    /\ opLog' = Append(opLog, Op("readFile", p, <<>>))
    /\ path' = p
    /\ pc' = "readFile" /\ stack' = <<"idle">>
    /\ UNCHANGED <<boardVars, failed, wire, devIn, devVars, inspVars, buffer, rline, command,
                   response, data, outIndex, inLen, rbuf, retVars, probes, closes, notified,
                   cls, rdHist, enqHist, deqHist, sc, tr>>

CallRunCode(p, c) ==
    /\ pc = "idle" /\ Len(opLog) < MaxOps /\ connectedBoard = "this"
    /\ opLog' = Append(opLog, Op("runCode", p, c))
    /\ pc' = "runCode" /\ stack' = <<"idle">>
    /\ UNCHANGED <<boardVars, failed, wire, devIn, devVars, inspVars, localVars, retVars,
                   probes, closes, notified, cls, rdHist, enqHist, deqHist, sc, tr>>

CallGetDirContent(p) ==
    /\ pc = "idle" /\ Len(opLog) < MaxOps /\ connectedBoard = "this"
    /\ opLog' = Append(opLog, Op("getDirContent", p, <<>>))
    /\ path' = p
    /\ pc' = "getDirContent" /\ stack' = <<"idle">>
    /\ UNCHANGED <<boardVars, failed, wire, devIn, devVars, inspVars, buffer, rline, command,
                   response, data, outIndex, inLen, rbuf, retVars, probes, closes, notified,
                   cls, rdHist, enqHist, deqHist, sc, tr>>

CallReset ==
    /\ pc = "idle" /\ Len(opLog) < MaxOps /\ connectedBoard = "this"
    /\ opLog' = Append(opLog, Op("reset", <<>>, <<>>))
    /\ pc' = "reset" /\ stack' = <<"idle">>
    /\ UNCHANGED <<boardVars, failed, wire, devIn, devVars, inspVars, localVars, retVars,
                   probes, closes, notified, cls, rdHist, enqHist, deqHist, sc, tr>>

(***************************************************************************)
(* The device: a Lua RTOS board as the wire contract describes it.  It     *)
(* handles what the host wrote one Write or Apply at a time.               *)
(***************************************************************************)
IsProbe(m) == m.k = "write" /\ m.b = <<EOT>>
IsCommand(m) ==
    /\ m.k = "write" /\ Len(m.b) >= 1
    /\ \/ m.b[Len(m.b)] = CR
       \/ Len(m.b) >= 2 /\ m.b[Len(m.b)] = LF /\ m.b[Len(m.b) - 1] = CR
CommandText(m) ==
    IF m.b[Len(m.b)] = CR THEN SubSeq(m.b, 1, Len(m.b) - 1) ELSE SubSeq(m.b, 1, Len(m.b) - 2)

RECURSIVE Lines(_)
Lines(ls) == IF ls = <<>> THEN <<>> ELSE Head(ls) \o CRLF \o Lines(Tail(ls))

\* the control lines pulsed: the board is held in reset, then boots
DevApply ==
    /\ devIn # <<>> /\ Head(devIn).k = "apply"
    /\ devIn' = Tail(devIn)
    /\ devStage' = IF Head(devIn).flow THEN "held" ELSE "booting"
    /\ devMode' = "shell" /\ devCur' = <<>>
    /\ UNCHANGED <<boardVars, failed, wire, devFS, devPath, devPos, inspVars, pc, stack,
                   localVars, retVars, probes, closes, obsVars>>

\* the same, the boot ROM or the firmware printing a line as the board starts
DevBootLine(l) ==
    /\ devIn # <<>> /\ Head(devIn).k = "apply" /\ ~Head(devIn).flow
    /\ devIn' = Tail(devIn)
    /\ devStage' = "booting"
    /\ devMode' = "shell" /\ devCur' = <<>>
    /\ wire' = wire \o l \o CRLF
    /\ UNCHANGED <<boardVars, failed, devFS, devPath, devPos, inspVars, pc, stack,
                   localVars, retVars, probes, closes, obsVars>>

\* a 0x04 probe answered with the banner of the boot stage
DevProbe ==
    /\ devIn # <<>> /\ IsProbe(Head(devIn)) /\ devMode = "shell" /\ devStage # "held"
    /\ devIn' = Tail(devIn)
    /\ wire' = wire \o (IF devStage = "booting" THEN BootingBanner ELSE RunningBanner) \o CRLF
    /\ devStage' = "running"
    /\ UNCHANGED <<boardVars, failed, devMode, devFS, devCur, devPath, devPos, inspVars, pc,
                   stack, localVars, retVars, probes, closes, obsVars>>

\* a probe of a booting board whose boot scripts were aborted
DevProbeAborted ==
    /\ devIn # <<>> /\ IsProbe(Head(devIn)) /\ devMode = "shell" /\ devStage = "booting"
    /\ devIn' = Tail(devIn)
    /\ wire' = wire \o AbortedBanner \o CRLF
    /\ devStage' = "running"
    /\ UNCHANGED <<boardVars, failed, devMode, devFS, devCur, devPath, devPos, inspVars, pc,
                   stack, localVars, retVars, probes, closes, obsVars>>

\* a command line run by the shell: echo, then the transfer or the body and the prompt
DevRun(text, echo, body) ==
    /\ devIn' = Tail(devIn)
    /\ IF \E p \in AllPaths : text = ReceiveCommand(p)
       THEN /\ devMode' = "recv"
            /\ devPath' = CHOOSE p \in AllPaths : text = ReceiveCommand(p)
            /\ devCur' = <<>>
            /\ wire' = wire \o echo \o ReadyLine \o <<LF>>
            /\ UNCHANGED devPos
       ELSE IF \E p \in AllPaths : text = SendFileCommand(p)
            THEN /\ devMode' = "send"
                 /\ devPath' = CHOOSE p \in AllPaths : text = SendFileCommand(p)
                 /\ devPos' = 0
                 /\ wire' = wire \o echo
                 /\ UNCHANGED devCur
            ELSE /\ wire' = wire \o echo
                              \o Lines(IF text = InfoCommand THEN InfoBody ELSE body)
                              \o Prompt \o CRLF
                 /\ UNCHANGED <<devMode, devPath, devCur, devPos>>
    /\ UNCHANGED <<boardVars, failed, devStage, devFS, inspVars, pc, stack, localVars,
                   retVars, probes, closes, obsVars>>

DevCommand(body) ==
    /\ devIn # <<>> /\ devMode = "shell" /\ IsCommand(Head(devIn))
    /\ DevRun(CommandText(Head(devIn)), CommandText(Head(devIn)) \o CRLF, body)

\* the echo garbled on the line
DevCommandBadEcho(body) ==
    /\ devIn # <<>> /\ devMode = "shell" /\ IsCommand(Head(devIn))
    /\ DevRun(CommandText(Head(devIn)), CommandText(Head(devIn)) \o Bytes("?") \o CRLF, body)

\* io.receive: the length byte of the next chunk; zero closes the file
DevRecvLen ==
    /\ devIn # <<>> /\ devMode = "recv"
    /\ Head(devIn).k = "write" /\ Len(Head(devIn).b) = 1
    /\ devIn' = Tail(devIn)
    /\ IF Head(devIn).b[1] = 0
       THEN /\ devFS' = [devFS EXCEPT ![devPath] = devCur]
            /\ devMode' = "shell"
            /\ UNCHANGED devPos
       ELSE /\ devPos' = Head(devIn).b[1]
            /\ devMode' = "recvData"
            /\ UNCHANGED devFS
    /\ UNCHANGED <<boardVars, failed, wire, devStage, devCur, devPath, inspVars, pc, stack,
                   localVars, retVars, probes, closes, obsVars>>

\* io.receive: the chunk stored, the next one requested
DevRecvData ==
    /\ devIn # <<>> /\ devMode = "recvData"
    /\ Head(devIn).k = "write" /\ Len(Head(devIn).b) = devPos
    /\ devIn' = Tail(devIn)
    /\ devCur' = Append(devCur, Head(devIn).b)
    /\ devMode' = "recv"
    /\ wire' = wire \o ReadyLine \o <<LF>>
    /\ UNCHANGED <<boardVars, failed, devStage, devFS, devPath, devPos, inspVars, pc, stack,
                   localVars, retVars, probes, closes, obsVars>>

\* io.receive: the chunk stored; a log line printed before the next one is requested
DevRecvDataChatty ==
    /\ devIn # <<>> /\ devMode = "recvData"
    /\ Head(devIn).k = "write" /\ Len(Head(devIn).b) = devPos
    /\ devIn' = Tail(devIn)
    /\ devCur' = Append(devCur, Head(devIn).b)
    /\ devMode' = "recv"
    /\ wire' = wire \o Bytes("w") \o CRLF \o ReadyLine \o <<LF>>
    /\ UNCHANGED <<boardVars, failed, devStage, devFS, devPath, devPos, inspVars, pc, stack,
                   localVars, retVars, probes, closes, obsVars>>

\* io.send: on "C\n" the next stored chunk as length byte and payload, or the zero length
DevSendChunk ==
    /\ devIn # <<>> /\ devMode = "send"
    /\ Head(devIn).k = "write" /\ Head(devIn).b = ReadyLine \o <<LF>>
    /\ devIn' = Tail(devIn)
    /\ IF devPos < Len(devFS[devPath])
       THEN /\ wire' = wire \o <<Len(devFS[devPath][devPos + 1])>> \o devFS[devPath][devPos + 1]
            /\ devPos' = devPos + 1
            /\ UNCHANGED devMode
       ELSE /\ wire' = wire \o <<0>>
            /\ devMode' = "shell"
            /\ UNCHANGED devPos
    /\ UNCHANGED <<boardVars, failed, devStage, devFS, devCur, devPath, inspVars, pc, stack,
                   localVars, retVars, probes, closes, obsVars>>

\* a write the device does not expect in its mode: discarded, the transfer abandoned
DevDrop ==
    /\ devIn # <<>> /\ Head(devIn).k = "write"
    /\ \/ devMode = "shell" /\ ~IsCommand(Head(devIn))
                            /\ ~(IsProbe(Head(devIn)) /\ devStage # "held")
       \/ devMode = "recv" /\ Len(Head(devIn).b) # 1
       \/ devMode = "recvData" /\ Len(Head(devIn).b) # devPos
       \/ devMode = "send" /\ Head(devIn).b # ReadyLine \o <<LF>>
    /\ devIn' = Tail(devIn)
    /\ devMode' = "shell"
    /\ UNCHANGED <<boardVars, failed, wire, devStage, devFS, devCur, devPath, devPos,
                   inspVars, pc, stack, localVars, retVars, probes, closes, obsVars>>

(***************************************************************************)
(* Specifications                                                          *)
(***************************************************************************)
IsBooting == Probe("isBooting")
IsRunning == Probe("isRunning")

\* the steps inside attach and reset, with the sendCommand and writeFile they run
CoreStep ==
    \/ AttachRet \/ ReadLine \/ Consume \/ Reset \/ IsBooting \/ IsBootingRet
    \/ IsRunning \/ IsRunningRet \/ (\E s \in InfoScripts : ResetInfo(s))
    \/ GetInfo \/ GetInfoRet \/ SendCommand \/ SendCommandEcho \/ SendCommandBody
    \/ WriteFile \/ WriteFileEcho \/ WriteFileChunk

\* the steps inside readFile
ReadFileStep ==
    \/ ReadFile \/ ReadFileEcho \/ ReadFileReady \/ ReadFileLen \/ ReadFileData \/ ReadFileRet

\* the device keeping to the wire contract during attach and reset
DevCore == DevApply \/ DevProbe \/ DevRecvLen \/ DevRecvData

\* the one body the shell prints in the sessions that do not vary it
PlainBody == <<Bytes("a")>>

\* The general session: any two operations after attach, a device that keeps
\* to the wire contract, a transport that may fail at any moment.
Next ==
    \/ \E ok \in BOOLEAN : Attach(ok)
    \/ \E r \in {"nil", "this"} : Detach(r)
    \/ \E c \in Commands : CallSendCommand(c)
    \/ \E d \in SessionFiles : CallWriteFile(PlainPath, d)
    \/ CallReadFile(PlainPath)
    \/ CallReset
    \/ CoreStep \/ ReadFileStep
    \/ InspectorRead \/ InspectorSend \/ InspectorReadError
    \/ TransportFail
    \/ DevCore \/ DevSendChunk \/ DevCommand(PlainBody)

Spec == Init /\ [][Next]_vars

\* The command session: attach, then commands whose echo may be garbled and
\* whose body is any of Bodies.
CmdNext ==
    \/ Attach(TRUE)
    \/ \E c \in Commands : CallSendCommand(c)
    \/ CoreStep
    \/ InspectorRead \/ InspectorSend
    \/ DevCore
    \/ \E body \in Bodies : DevCommand(body)
    \/ \E body \in Bodies : DevCommandBadEcho(body)

CmdSpec == Init /\ [][CmdNext]_vars

\* The boot session: attach to a device that prints one of BootLines as it
\* starts and may report aborted boot scripts.
BootNext ==
    \/ Attach(TRUE)
    \/ CoreStep
    \/ InspectorRead \/ InspectorSend
    \/ DevCore \/ DevCommand(PlainBody)
    \/ \E l \in BootLines : DevBootLine(l)
    \/ DevProbeAborted

BootSpec == Init /\ [][BootNext]_vars

\* the last operation invoked was writeFile: the caller reads the same file back
CallReadBack ==
    /\ opLog # <<>> /\ opLog[Len(opLog)].op = "writeFile"
    /\ CallReadFile(opLog[Len(opLog)].path)

\* no file has been written in this session
CallWriteOnce(p, d) ==
    /\ \A i \in 1..Len(opLog) : opLog[i].op # "writeFile"
    /\ CallWriteFile(p, d)

\* The transfer session: attach, one writeFile at a chunk boundary, the same
\* file read back, against the device that keeps to the wire contract.
SimNext ==
    \/ \E ok \in BOOLEAN : Attach(ok)
    \/ \E p \in Paths, d \in BoundaryFiles : CallWriteOnce(p, d)
    \/ CallReadBack
    \/ CoreStep \/ ReadFileStep
    \/ InspectorRead \/ InspectorSend
    \/ DevCore \/ DevSendChunk \/ DevDrop \/ DevCommand(PlainBody)

SimSpec == Init /\ [][SimNext]_vars

\* The same session with a device that also prints log lines during a transfer.
XferNext == SimNext \/ DevRecvDataChatty

XferSpec == Init /\ [][XferNext]_vars

\* no code has been run in this session
CallRunOnce(p, c) ==
    /\ \A i \in 1..Len(opLog) : opLog[i].op # "runCode"
    /\ CallRunCode(p, c)

\* the steps inside runCode
RunCodeStep == RunCode \/ RunCodeRet \/ RunCodeCode \/ RunCodeRun

\* the steps inside attach and reset where board-info.lua cannot be read
CoreStepNoScript ==
    \/ AttachRet \/ ReadLine \/ Consume \/ Reset \/ IsBooting \/ IsBootingRet
    \/ IsRunning \/ IsRunningRet \/ ResetInfo(NoFile)
    \/ GetInfo \/ GetInfoRet \/ SendCommand \/ SendCommandEcho \/ SendCommandBody
    \/ WriteFile \/ WriteFileEcho \/ WriteFileChunk

\* The run session: attach, then runCode, the device printing one of
\* RunBootLines or nothing as it restarts.
RunNext ==
    \/ Attach(TRUE)
    \/ \E c \in Codes : CallRunOnce(PlainPath, c)
    \/ CoreStepNoScript \/ RunCodeStep
    \/ InspectorRead \/ InspectorSend
    \/ DevCore \/ DevCommand(PlainBody)
    \/ \E l \in RunBootLines : DevBootLine(l)

RunSpec == Init /\ [][RunNext]_vars

\* The reset session: attach, then runCode, over a transport that may fail at
\* any moment.
ResetNext ==
    \/ \E ok \in BOOLEAN : Attach(ok)
    \/ \E c \in Codes : CallRunOnce(PlainPath, c)
    \/ CoreStep \/ RunCodeStep
    \/ InspectorRead \/ InspectorSend \/ InspectorReadError
    \/ TransportFail
    \/ DevCore \/ DevCommand(PlainBody)

ResetSpec == Init /\ [][ResetNext]_vars

\* no directory has been listed in this session
CallListOnce(p) ==
    /\ \A i \in 1..Len(opLog) : opLog[i].op # "getDirContent"
    /\ CallGetDirContent(p)

\* The listing session: attach, then getDirContent of a directory for which
\* os.ls prints any of DirBodies, the echo possibly garbled.
DirNext ==
    \/ Attach(TRUE)
    \/ CallListOnce(PlainPath)
    \/ CoreStep \/ GetDirContent \/ GetDirContentRet
    \/ InspectorRead \/ InspectorSend
    \/ DevCore
    \/ \E body \in DirBodies : DevCommand(body)
    \/ \E body \in DirBodies : DevCommandBadEcho(body)

DirSpec == Init /\ [][DirNext]_vars

\* The line session: attach to a device that prints one of RawLines as it starts.
LineNext ==
    \/ Attach(TRUE)
    \/ CoreStep
    \/ InspectorRead \/ InspectorSend
    \/ DevCore \/ DevCommand(PlainBody)
    \/ \E l \in RawLines : DevBootLine(l)

LineSpec == Init /\ [][LineNext]_vars

\* attach alone, against the device that keeps to the wire contract
AttachNext ==
    \/ \E ok \in BOOLEAN : Attach(ok)
    \/ CoreStep
    \/ InspectorRead \/ InspectorSend
    \/ DevCore \/ DevCommand(PlainBody)

AttachProgress ==
    CoreStep \/ InspectorRead \/ InspectorSend \/ DevCore \/ DevCommand(PlainBody)

FairAttachSpec == Init /\ [][AttachNext]_vars /\ WF_vars(AttachProgress)

(***************************************************************************)
(* Claims                                                                  *)
(***************************************************************************)
RECURSIVE Join(_, _)
Join(ls, sep) ==
    IF ls = <<>> THEN <<>>
    ELSE IF Len(ls) = 1 THEN ls[1]
         ELSE ls[1] \o sep \o Join(Tail(ls), sep)

CountOf(evs, names) == Len(SelectSeq(evs, LAMBDA e : e.name \in names))
LastOp == opLog[Len(opLog)]

\* the byte the Inspector has read and not yet sent to the channel
InFlight == IF ipc = "send" THEN <<ibuf>> ELSE <<>>

\* C1 as stated: in every reachable state the bytes sent to RXQueue so far are
\* exactly the bytes the Inspector has read from the port so far.
C1_EnqueuedEqualsRead == enqHist = rdHist

\* C1 amended: the bytes sent to RXQueue so far, followed by the one byte the
\* Inspector holds between its Read and its channel send, are exactly the bytes
\* read from the port so far, in order; and the bytes sent are exactly the bytes
\* the caller has received followed by the bytes still queued, so bytes leave
\* the queue only at its head.
C1_QueueDiscipline ==
    /\ enqHist \o InFlight = rdHist
    /\ enqHist = deqHist \o RXQueue

\* the Inspector blocked on a full queue, a byte in hand, while readLine drains it
C1_Witness ==
    /\ ipc = "send" /\ Len(RXQueue) = QueueCap
    /\ pc = "readLine" /\ deqHist # <<>> /\ Len(rdHist) = Len(enqHist) + 1

\* C2: once writeFile(p, B) and then readFile(p) have returned, readFile's
\* result is B.
C2_RoundTrip ==
    (/\ pc = "idle" /\ Len(opLog) >= 2
     /\ LastOp.op = "readFile" /\ opLog[Len(opLog) - 1].op = "writeFile"
     /\ LastOp.path = opLog[Len(opLog) - 1].path)
    => rfRet = opLog[Len(opLog) - 1].data

\* C2 for a path of ASCII bytes only: the same round trip.
C2_RoundTripPlainPath ==
    (/\ pc = "idle" /\ Len(opLog) >= 2
     /\ LastOp.op = "readFile" /\ opLog[Len(opLog) - 1].op = "writeFile"
     /\ LastOp.path = PlainPath /\ opLog[Len(opLog) - 1].path = PlainPath)
    => rfRet = opLog[Len(opLog) - 1].data

\* C3: a sendCommand whose first line differs from the command has returned the
\* empty string and has read that one line only.
C3_MismatchReturnsEmpty ==
    (sc.done /\ sc.lines[1] # sc.cmd) => (response = <<>> /\ Len(sc.lines) = 1)

\* a garbled echo, the command returned, the body still unread
C3_Witness ==
    /\ sc.done /\ sc.lines[1] # sc.cmd /\ sc.cmd \in Commands
    /\ pc = "idle" /\ (RXQueue # <<>> \/ wire # <<>>)

\* C4: a line classified while suppression is off notifies at most one of the
\* three reset causes.
C4_OneResetCausePerLine ==
    (cls.n > 0 /\ ~cls.disable)
    => CountOf(cls.events, {"boardPowerOnReset", "boardSoftwareReset", "boardDeepSleepReset"}) <= 1

\* C5: a classified line notifies at most one boardRuntimeError: for the
\* structured form with the line's exception code, otherwise for the loose form
\* with exception "0", otherwise none.
C5_OneRuntimeError ==
    cls.n > 0 =>
        LET errs == SelectSeq(cls.events, LAMBDA e : e.name = "boardRuntimeError")
            s == Structured(cls.line)
            l == Loose(cls.line)
        IN  /\ Len(errs) <= 1
            /\ s.ok => errs = <<Event("boardRuntimeError",
                                      ErrorInfo(s.where, s.line, s.exception, s.message))>>
            /\ (~s.ok /\ l.ok) => errs = <<Event("boardRuntimeError",
                                                 ErrorInfo(l.where, l.line, Bytes("0"), l.message))>>
            /\ (~s.ok /\ ~l.ok) => errs = <<>>

\* the structured line a:1: 2:m classified, its one notification carrying exception 2
C5_Witness ==
    /\ cls.n > 0 /\ cls.line = Bytes("a:1: 2:m")
    /\ cls.events = <<Event("boardRuntimeError",
            Bytes("\"where\": \"a\", \"line\": \"1\", \"exception\": \"2\", \"message\": \"m\""))>>

\* C6: once attach has opened the port and called reset, against the device that
\* answers the probes with the booting and then the running banner, attach
\* eventually has installed the Board, notified boardAttached and returned true.
C6_AttachCompletes ==
    (pc = "reset" /\ stack = <<"attach_ret">>)
    ~> (/\ attachRet = "true" /\ connectedBoard = "this" /\ pc = "idle"
        /\ CountOf(notified, {"boardAttached"}) = 1)

\* attach returned true after exactly the two probes
C6_Witness ==
    /\ attachRet = "true" /\ connectedBoard = "this" /\ pc = "idle" /\ probes = 2
    /\ notified # <<>> /\ notified[Len(notified)].name = "boardAttached"

C8_AttachFailureInstallsNothing ==
    [][/\ (/\ attachRet' = "false"
           /\ \/ pc = "attach_ret"
              \/ Len(opLog') > Len(opLog) /\ opLog'[Len(opLog')].op = "attach")
          => (connectedBoard' = connectedBoard /\ notified' = notified)
       /\ (\/ connectedBoard' = "this" /\ connectedBoard # "this"
           \/ CountOf(notified', {"boardAttached"}) # CountOf(notified, {"boardAttached"}))
          => /\ pc = "attach_ret" /\ resetRet /\ attachRet' = "true"
             /\ connectedBoard' = "this"
             /\ notified' = Append(notified, Event("boardAttached", <<>>))]_vars

\* attach failed at the open while an earlier Board was active
C8_Witness == attachRet = "false" /\ connectedBoard = "other" /\ port = "nil" /\ opLog # <<>>

\* C9: once the Inspector has ended on a failed Read, the active board reference
\* does not point to this Board.
C9_ReadFailureDetaches == (ipc = "dead" /\ failed) => connectedBoard # "this"

\* C10: a sendCommand whose echo matched has returned the lines between the echo
\* and the first prompt line, joined by "\r\n"; the prompt is the last line read.
C10_ResponseIsJoinedBody ==
    (sc.done /\ sc.lines[1] = sc.cmd)
    => LET n == Len(sc.lines) IN
        /\ n >= 2 /\ isPrompt(sc.lines[n])
        /\ \A i \in 2..(n - 1) : ~isPrompt(sc.lines[i])
        /\ response = Join(SubSeq(sc.lines, 2, n - 1), CRLF)
Min(a, b) == IF a < b THEN a ELSE b

\* the payload bytes the entries of a writeFile log sent, concatenated
RECURSIVE SentPayload(_)
SentPayload(log) ==
    IF log = <<>> THEN <<>>
    ELSE SentPayload(SubSeq(log, 1, Len(log) - 1))
            \o (IF Len(log[Len(log)].sent) = 2 THEN log[Len(log)].sent[2] ELSE <<>>)

\* C11: in a writeFile whose echo matched, every line read that is "C" is answered
\* with one length byte min(chunkSize, remaining) and, when that is not 0, with
\* exactly that many bytes from the cursor, which is the number of payload bytes
\* sent before; any other line is answered with nothing; only the last line
\* read is answered with length 0, and once it is the payloads sent make up the
\* whole buffer.
C11_WriteFileChunks ==
    LET w == tr.wf IN
    /\ ~w.echo => w.log = <<>>
    /\ \A i \in 1..Len(w.log) :
          LET e == w.log[i]
              cur == Len(SentPayload(SubSeq(w.log, 1, i - 1)))
              n == Min(w.cs, Len(w.data) - cur)
          IN  /\ cur <= Len(w.data)
              /\ e.line # ReadyLine => e.sent = <<>>
              /\ (e.line = ReadyLine /\ n > 0) => e.sent = <<<<n>>, SubSeq(w.data, cur + 1, cur + n)>>
              /\ (e.line = ReadyLine /\ n = 0) => (e.sent = <<<<0>>>> /\ i = Len(w.log) /\ w.done)
    /\ (w.echo /\ w.done) => /\ w.log # <<>> /\ w.log[Len(w.log)].sent = <<<<0>>>>
                             /\ SentPayload(w.log) = w.data

\* a buffer of chunkSize+1 bytes sent in two chunks past a log line of the device
C11_Witness ==
    /\ tr.wf.echo /\ tr.wf.done /\ Len(tr.wf.data) = ChunkSize + 1 /\ Len(tr.wf.log) = 4
    /\ \E i \in 1..Len(tr.wf.log) : tr.wf.log[i].line = Bytes("w")

\* the pull handshake run over a readFile log: what is expected next, how many
\* bytes of the chunk are outstanding, the payload so far; ok is FALSE from the
\* first step that is out of order
RECURSIVE Handshake(_)
Handshake(log) ==
    IF log = <<>> THEN [ok |-> TRUE, st |-> "ready", k |-> 0, payload |-> <<>>]
    ELSE LET p == Handshake(SubSeq(log, 1, Len(log) - 1))
             e == log[Len(log)]
         IN  IF ~p.ok THEN p
             ELSE IF p.st = "ready" /\ e.k = "ready" THEN [p EXCEPT !.st = "len"]
             ELSE IF p.st = "len" /\ e.k = "len" /\ e.v > 0 THEN [p EXCEPT !.st = "data", !.k = e.v]
             ELSE IF p.st = "len" /\ e.k = "len" /\ e.v = 0 THEN [p EXCEPT !.st = "end"]
             ELSE IF p.st = "data" /\ e.k = "byte"
                  THEN [p EXCEPT !.payload = Append(@, e.v), !.k = @ - 1,
                                 !.st = IF p.k = 1 THEN "ready" ELSE "data"]
             ELSE [p EXCEPT !.ok = FALSE]

\* C12: the ready markers written, the length bytes and the payload bytes read by
\* a readFile after its echo matched come in the order of the handshake: one
\* marker, one length byte n, then n payload bytes if n > 0, and again; nothing
\* follows the first zero length; a readFile that has returned stopped there and
\* returned the payload bytes in order.
C12_ReadFileHandshake ==
    LET r == tr.rf IN
    /\ ~r.echo => r.log = <<>>
    /\ Handshake(r.log).ok
    /\ (r.echo /\ r.done) => (Handshake(r.log).st = "end" /\ rfRet = Handshake(r.log).payload)

\* a file of chunkSize+1 bytes read back in two chunks and the zero length
C12_Witness ==
    /\ tr.rf.echo /\ tr.rf.done /\ pc = "idle" /\ Len(rfRet) = ChunkSize + 1
    /\ Len(SelectSeq(tr.rf.log, LAMBDA e : e.k = "ready")) = 3

ResetCauses == {"boardPowerOnReset", "boardSoftwareReset", "boardDeepSleepReset"}

\* C13: suppression is on while runCode's reset runs and off from its return on,
\* also when runCode has returned; a line classified while it is on notifies no
\* reset cause, and a line classified while it is off notifies the reset causes
\* its text matches.
C13_SuppressionWindow ==
    /\ (\E i \in 1..Len(stack) : stack[i] = "rc_ret") => disableInspectorBootNotify
    /\ (pc \in {"rc_code", "rc_run", "idle"} \/ (\E i \in 1..Len(stack) : stack[i] \in {"rc_code", "rc_run"}))
          => ~disableInspectorBootNotify
    /\ (cls.n > 0 /\ cls.flag) => CountOf(cls.events, ResetCauses) = 0
    /\ (cls.n > 0 /\ ~cls.flag)
          => SelectSeq(cls.events, LAMBDA e : e.name \in ResetCauses) = ResetEvents(cls.line, FALSE)

\* C13 for the lines at which the Inspector's read of the flag yielded the value
\* the field held: the same.
C13_SuppressionWindowSeenInOrder ==
    /\ (\E i \in 1..Len(stack) : stack[i] = "rc_ret") => disableInspectorBootNotify
    /\ (pc \in {"rc_code", "rc_run", "idle"} \/ (\E i \in 1..Len(stack) : stack[i] \in {"rc_code", "rc_run"}))
          => ~disableInspectorBootNotify
    /\ (cls.n > 0 /\ cls.flag /\ cls.disable = cls.flag) => CountOf(cls.events, ResetCauses) = 0
    /\ (cls.n > 0 /\ ~cls.flag /\ cls.disable = cls.flag)
          => SelectSeq(cls.events, LAMBDA e : e.name \in ResetCauses) = ResetEvents(cls.line, FALSE)

\* the number of tab bytes of a line
Tabs(l) == Len(SelectSeq(l, LAMBDA b : b = TAB))

\* the i-th tab-delimited field of a line
Field(l, i) == Split(l, TAB)[i]

\* the objects of the lines of four fields, in order, each after the first preceded by a comma
RECURSIVE Objects(_, _)
Objects(ls, first) ==
    IF ls = <<>> THEN <<>>
    ELSE IF Tabs(Head(ls)) = 3
         THEN (IF first THEN <<>> ELSE Bytes(","))
                \o Bytes("{\"type\": \"") \o Field(Head(ls), 1)
                \o Bytes("\",\"size\": \"") \o Field(Head(ls), 2)
                \o Bytes("\",\"date\": \"") \o Field(Head(ls), 3)
                \o Bytes("\",\"name\": \"") \o Field(Head(ls), 4) \o Bytes("\"}")
                \o Objects(Tail(ls), FALSE)
         ELSE Objects(Tail(ls), first)

\* C14: a getDirContent that has returned yields "[" and "]" around one object
\* per body line of exactly four tab-delimited fields, in the order of the lines
\* and separated by commas, where the body is the lines sendCommand read between
\* the echo and the prompt; it yields "[]" when the echo did not match.
C14_DirContent ==
    (pc = "idle" /\ opLog # <<>> /\ LastOp.op = "getDirContent")
    => IF sc.lines[1] = sc.cmd
       THEN gdRet = Bytes("[") \o Objects(SubSeq(sc.lines, 2, Len(sc.lines) - 1), TRUE) \o Bytes("]")
       ELSE gdRet = Bytes("[]")

\* two lines of four fields around a line of five: a result of two objects
C14_Witness ==
    /\ pc = "idle" /\ opLog # <<>> /\ LastOp.op = "getDirContent"
    /\ Len(sc.lines) = 5 /\ sc.lines[1] = sc.cmd
    /\ Tabs(sc.lines[2]) = 3 /\ Tabs(sc.lines[3]) = 4 /\ Tabs(sc.lines[4]) = 3
    /\ sc.lines[2] # sc.lines[4]
    /\ gdRet = Bytes("[{\"type\": \"d\",\"size\": \"0\",\"date\": \"1\",\"name\": \"a\"},{\"type\": \"f\",\"size\": \"2\",\"date\": \"3\",\"name\": \"b\"}]")

\* C15: what a reset did, in order: the pulse (flow control on, then off) comes
\* first; every poll is one write of the single byte 0x04 followed by the read
\* of exactly one line; the polls of the second loop come after a poll of the
\* first loop whose line was one of the three banners, which is the last poll of
\* the first loop; the flush comes right after a poll of the second loop whose
\* line was the running banner, which is the last poll; the push of the info
\* script, the metadata request and the return come after the flush, in this
\* order.
C15_ResetOrder ==
    LET g == tr.rs
        K(i) == g[i].k
    IN  /\ Len(g) >= 1 => K(1) = "on"
        /\ Len(g) >= 2 => K(2) = "off"
        /\ \A i \in 3..Len(g) :
            /\ K(i) \notin {"on", "off"}
            /\ K(i) = "probe" =>
                  /\ g[i].l = <<EOT>>
                  /\ K(i - 1) \in {"off", "reply1", "reply2"}
                  /\ K(i - 1) = "reply2" => g[i - 1].l # RunningBanner
            /\ K(i) \in {"reply1", "reply2"} =>
                  /\ K(i - 1) = "probe"
                  /\ g[i].nl = g[i - 1].nl + 1
            /\ K(i) = "reply1" =>
                  \A j \in 3..(i - 1) :
                      /\ K(j) # "reply2"
                      /\ K(j) = "reply1" => g[j].l \notin {BootingBanner, AbortedBanner, RunningBanner}
            /\ K(i) = "reply2" =>
                  \E j \in 3..(i - 2) :
                      /\ K(j) = "reply1" /\ g[j].l \in {BootingBanner, AbortedBanner, RunningBanner}
                      /\ \A m \in (j + 1)..(i - 1) : K(m) # "reply1"
            /\ K(i) = "flush" => (K(i - 1) = "reply2" /\ g[i - 1].l = RunningBanner)
            /\ K(i) = "push" => K(i - 1) = "flush"
            /\ K(i) = "info" => K(i - 1) \in {"flush", "push"}
            /\ K(i) = "ret" => K(i - 1) = "info"

\* a reset that returned after a boot line, the booting banner and the running
\* banner were read by three polls, and pushed the info script
C15_Witness ==
    /\ tr.rs # <<>> /\ tr.rs[Len(tr.rs)].k = "ret"
    /\ Len(SelectSeq(tr.rs, LAMBDA e : e.k = "probe")) = 3
    /\ \E i \in 1..Len(tr.rs) : tr.rs[i].k = "reply1" /\ tr.rs[i].l \in BootLines
    /\ \E i \in 1..Len(tr.rs) : tr.rs[i].k = "push"

\* C16: a line classified while suppression is on, in the field or as the
\* Inspector read it, notifies the runtime error of its form exactly as without
\* suppression, and nothing else when the Inspector read the flag as on; and the
\* bytes read from the port are all sent to RXQueue, the last one possibly still
\* in the Inspector's hand.
C16_SuppressionOnlyResetCauses ==
    /\ (cls.n > 0 /\ (cls.flag \/ cls.disable))
          => SelectSeq(cls.events, LAMBDA e : e.name \notin ResetCauses) = ErrorEvents(cls.line)
    /\ (cls.n > 0 /\ cls.disable) => cls.events = ErrorEvents(cls.line)
    /\ disableInspectorBootNotify => enqHist \o InFlight = rdHist

\* a line of both families classified under suppression: the runtime error
\* alone is notified, and the line has gone on to the caller
C16_Witness ==
    /\ cls.n > 0 /\ cls.flag /\ cls.disable /\ disableInspectorBootNotify
    /\ cls.line = Bytes("rst:1: 2:(POWERON_RESET),boot:")
    /\ MatchPowerOn(cls.line)
    /\ cls.events = <<Event("boardRuntimeError",
                             ErrorInfo(Bytes("rst"), Bytes("1"), Bytes("2"),
                                       Bytes("(POWERON_RESET),boot:")))>>
    /\ \E i \in 1..Len(tr.rs) : tr.rs[i].k = "reply1" /\ tr.rs[i].l = cls.line

\* C17: the line classified at the n-th newline is the bytes read from the port
\* between the (n-1)-th and the n-th newline without the carriage returns; the
\* accumulator holds the bytes read since the last newline without the carriage
\* returns, so it is empty right after a newline; and every byte read, carriage
\* returns and newlines included, is sent to RXQueue.
C17_LineReassembly ==
    /\ cls.n > 0 => cls.line = DropCR(Split(rdHist, LF)[cls.n])
    /\ ipc \in {"read", "send"} => line = DropCR(Split(rdHist, LF)[Len(Split(rdHist, LF))])
    /\ enqHist \o InFlight = rdHist

\* C17 for lines of bytes below 0x80 only: the same.
C17_LineReassemblyAscii ==
    /\ (cls.n > 0 /\ \A i \in 1..Len(Split(rdHist, LF)[cls.n]) : Split(rdHist, LF)[cls.n][i] < 128)
          => cls.line = DropCR(Split(rdHist, LF)[cls.n])
    /\ (ipc \in {"read", "send"} /\ \A i \in 1..Len(rdHist) : rdHist[i] < 128)
          => line = DropCR(Split(rdHist, LF)[Len(Split(rdHist, LF))])
    /\ enqHist \o InFlight = rdHist

\* C18: the step writeFile or readFile takes after reading a first line that
\* differs from its command is its return: nothing is written to the port, no
\* byte is taken from RXQueue, nothing is logged as sent or read, and readFile's
\* result is nil; and a transfer that returned this way has sent and read nothing.
C18_TransferEchoMismatch ==
    /\ [][((pc = "wf_echo" /\ rline # command /\ pc' # pc)
              => (/\ pc' = Head(stack) /\ stack' = Tail(stack)
                  /\ devIn' = devIn /\ RXQueue' = RXQueue /\ deqHist' = deqHist
                  /\ tr'.wf.log = <<>> /\ tr'.wf.done /\ ~tr'.wf.echo))
           /\ ((pc = "rf_echo" /\ rline # command /\ pc' # pc)
              => (/\ pc' = Head(stack) /\ stack' = Tail(stack)
                  /\ devIn' = devIn /\ RXQueue' = RXQueue /\ deqHist' = deqHist
                  /\ rfRet' = <<>>
                  /\ tr'.rf.log = <<>> /\ tr'.rf.done /\ ~tr'.rf.echo))]_vars
    /\ []((tr.wf.done /\ ~tr.wf.echo) => tr.wf.log = <<>>)
    /\ []((tr.rf.done /\ ~tr.rf.echo) => tr.rf.log = <<>>)

\* writeFile returned on a mismatch and left the device's "C" line queued; the
\* readFile after it read that line as its echo and returned nil
C18_Witness ==
    /\ pc = "idle" /\ Len(opLog) = 3 /\ LastOp.op = "readFile"
    /\ opLog[2].op = "writeFile" /\ opLog[2].data # <<>>
    /\ tr.wf.done /\ ~tr.wf.echo /\ tr.rf.done /\ ~tr.rf.echo
    /\ rline = ReadyLine /\ rfRet = <<>>

\* reset is running: it has pulsed the control lines and has not returned
InReset == tr.rs # <<>> /\ tr.rs[Len(tr.rs)].k # "ret"

\* C19: reset has no failure outcome.  While reset runs control is never back
\* in its caller, and once it has returned its result is true; so an attach
\* whose port was opened never returns false, and a runCode that has returned
\* has switched the suppression of boot notifications off again.
C19_ResetNeverFails ==
    /\ InReset => pc \notin {"idle", "attach_ret", "rc_ret", "rc_code", "rc_run"}
    /\ (tr.rs # <<>> /\ ~InReset) => resetRet
    /\ pc \in {"attach_ret", "rc_ret"} => resetRet
    /\ attachRet = "false" => port = "nil"
    /\ (pc = "idle" /\ opLog # <<>> /\ LastOp.op = "attach" /\ port # "nil")
          => attachRet = "true"
    /\ (pc = "idle" /\ opLog # <<>> /\ LastOp.op = "runCode")
          => ~disableInspectorBootNotify

\* the transport failed while the reset inside runCode was pushing the info
\* script: reset waits for a line that never arrives, runCode has not returned
\* and the suppression is still on
C19_Witness ==
    /\ opLog # <<>> /\ LastOp.op = "runCode" /\ InReset
    /\ tr.rs[Len(tr.rs)].k = "push"
    /\ pc = "readLine" /\ RXQueue = <<>> /\ wire = <<>> /\ ipc = "dead" /\ failed
    /\ disableInspectorBootNotify

\* C20: RXQueue never holds more bytes than its capacity.  While it is full and
\* the Inspector holds a byte, the Inspector keeps that byte, reads nothing
\* from the port, classifies no line and notifies nothing (the only event that
\* can be emitted meanwhile is the caller's boardAttached); it leaves the send
\* only when there is room, and then the byte it held is the one enqueued.
C20_BackPressure ==
    /\ [](Len(RXQueue) <= QueueCap)
    /\ [][((ipc = "send" /\ Len(RXQueue) = QueueCap)
              => (/\ ipc' = "send" /\ ibuf' = ibuf
                  /\ rdHist' = rdHist /\ enqHist' = enqHist
                  /\ cls' = cls /\ line' = line
                  /\ notified' # notified => pc = "attach_ret"
                  /\ RXQueue' # RXQueue => RXQueue' = Tail(RXQueue)))
           /\ ((ipc = "send" /\ ipc' # "send")
              => (/\ ipc' = "read" /\ Len(RXQueue) < QueueCap
                  /\ RXQueue' = Append(RXQueue, ibuf)
                  /\ enqHist' = Append(enqHist, ibuf)
                  /\ rdHist' = rdHist /\ notified' = notified))]_vars

\* the Inspector blocked with a newline in hand, its line already classified,
\* the queue full, more bytes waiting on the port, and a reader about to take one
C20_Witness ==
    /\ ipc = "send" /\ Len(RXQueue) = QueueCap /\ ibuf = LF /\ cls.n > 0
    /\ wire # <<>> /\ pc = "readLine" /\ port = "open" /\ ~failed
====
